---- MODULE Spec2Model ----
(***************************************************************************)
(* Model of engine.py: the parameter-freeze controller set_requires_grad,  *)
(* the epoch orchestrator train_one_epoch (with the alternating D/G update *)
(* it contains), and the inference drivers evaluate and generate.          *)
(*                                                                         *)
(* Networks are opaque: a network is a set of parameters with a            *)
(* requires_grad flag each, G's forward pass is an elementwise function of *)
(* the source image.  A tensor is a shape and its row-major data.  Pixel   *)
(* values are the end points -1 and 1 of the [-1,1] scale, on which the    *)
(* rescalings (x+1)*0.5 and (x+1)*0.5*255 are exact in integers.           *)
(***************************************************************************)
EXTENDS Integers, Sequences, FiniteSets, TLC

VARIABLES
    req,          \* req[net][p]: requires_grad of parameter p of network net
    mode,         \* mode[net]: "train" or "eval" (Module.train() / Module.eval())
    fz,           \* the last set_requires_grad call made by a client: arguments, state before, outcome
    pc,           \* position of the running function
    args,         \* the configuration bundle: n_epochs, total_epochs, log_freq, display_freq
    train_len,    \* len(train_loader): the number of batches of an epoch
    epoch,        \* the epoch argument of the current / last train_one_epoch call
    iter,         \* the 1-indexed batch counter of the for loop
    sched,        \* sched[net]: step counter of the scheduler of net
    optim,        \* optim[net]: [steps, grad] of the optimizer of net
    calls,        \* the calls made on schedulers, loader and optimizers during the current call, in order
    gsteps,       \* the values global_step took over the run, in order
    sink,         \* log_writer: the entries [tag, step] written, in order
    Gfn,          \* which function the generator computes
    dataset,      \* the samples behind data_loader, in iteration order
    batch_size,   \* the batch size of data_loader
    idx,          \* number of samples data_loader has yielded so far
    opts,         \* generate's options: save_images, and whether log_writer is supplied
    fake_images,  \* the list fake_images
    true_images,  \* the list true_images
    out,          \* what the finished function handed on / returned
    files,        \* the output directory: path -> image written there
    writes        \* the save_image calls made, in order

vars == <<req, mode, fz, pc, args, train_len, epoch, iter, sched, optim, calls,
          gsteps, sink, Gfn, dataset, batch_size, idx, opts, fake_images,
          true_images, out, files, writes>>

trainVars == <<args, train_len, epoch, iter, sched, optim, calls, gsteps>>
dataVars  == <<Gfn, dataset, batch_size, idx, opts, fake_images, true_images, out, files, writes>>

\* ---------------------------------------------------------------- bounds
NumParams  == 2    \* parameters per network
MaxNets    == 2    \* longest list handed to set_requires_grad
MaxRepeat  == 2    \* how often a client repeats the same set_requires_grad call
MaxT       == 2    \* most batches per training epoch
MaxEpochs  == 2    \* total_epochs of a run
MaxFreq    == 2    \* largest log_freq / display_freq
MaxSamples == 2    \* most samples in an evaluation / inference dataset
MaxBatch   == 2    \* largest batch size of an evaluation / inference loader

\* ---------------------------------------------------------------- networks
Nets   == {"G", "D"}
None   == "None"
Params == 1..NumParams

AllFlags == [Nets -> [Params -> BOOLEAN]]

\* every parameter of net has requires_grad = flag
AllReq(r, net, flag) == \A p \in Params : r[net][p] = flag

\* ------------------------------------------------------- set_requires_grad
\* A nets argument is [isList |-> FALSE, val |-> net] or [isList |-> TRUE, val |-> <<net, ...>>],
\* a net being a network or None.
NetOrNone == Nets \cup {None}

RECURSIVE SeqsUpTo(_, _)
SeqsUpTo(S, n) ==
    IF n = 0 THEN {<<>>}
    ELSE LET shorter == SeqsUpTo(S, n - 1)
         IN  shorter \cup {Append(s, x) : s \in {t \in shorter : Len(t) = n - 1}, x \in S}

NetsArgs ==
    {[isList |-> FALSE, val |-> n] : n \in NetOrNone}
        \cup {[isList |-> TRUE, val |-> s] : s \in SeqsUpTo(NetOrNone, MaxNets)}

\* lines 10-11: a single network is wrapped into a one-element list
AsList(nets) == IF nets.isList THEN nets.val ELSE <<nets.val>>

IsNotNoneUnchecked(net) == TRUE

\* line 13: if net is not None
IsNotNone(net) == net # None

SetParamsFirstOnly(r, net, flag) ==
    [r EXCEPT ![net] = [p \in Params |-> IF p = 1 THEN flag ELSE r[net][p]]]

\* lines 14-15: for param in net.parameters(): param.requires_grad = requires_grad
SetParams(r, net, flag) == [r EXCEPT ![net] = [p \in Params |-> flag]]

\* lines 12-15: the loop over nets.  None has no parameters(): reaching line 14
\* with it raises, leaving the flags set so far.
RECURSIVE ForNets(_, _, _)
ForNets(r, nets, flag) ==
    IF nets = <<>> THEN [req |-> r, raised |-> FALSE]
    ELSE IF IsNotNone(Head(nets))
         THEN IF Head(nets) \in Nets
              THEN ForNets(SetParams(r, Head(nets), flag), Tail(nets), flag)
              ELSE [req |-> r, raised |-> TRUE]
         ELSE ForNets(r, Tail(nets), flag)

\* lines 9-15
set_requires_grad(r, nets, flag) == ForNets(r, AsList(nets), flag)

NoCall == [n |-> 0]

\* A client calls set_requires_grad(nets, flag).
FreezeCall ==
    /\ pc = "client"
    /\ \E nets \in NetsArgs, flag \in BOOLEAN :
          LET res == set_requires_grad(req, nets, flag)
          IN  /\ req' = res.req
              /\ fz' = [n |-> 1, nets |-> nets, flag |-> flag, pre |-> req,
                        first |-> res.req, raised |-> res.raised]
    /\ UNCHANGED <<mode, pc, sink>>
    /\ UNCHANGED trainVars
    /\ UNCHANGED dataVars

\* The client repeats its last call with the same arguments.
FreezeAgain ==
    /\ pc = "client"
    /\ fz.n \in 1..(MaxRepeat - 1)
    /\ LET res == set_requires_grad(req, fz.nets, fz.flag)
       IN  /\ req' = res.req
           /\ fz' = [fz EXCEPT !.n = @ + 1, !.raised = @ \/ res.raised]
    /\ UNCHANGED <<mode, pc, sink>>
    /\ UNCHANGED trainVars
    /\ UNCHANGED dataVars

\* ---------------------------------------------------------------- defaults
NoArgs  == [n_epochs |-> 0, total_epochs |-> 0, log_freq |-> 1, display_freq |-> 1]
NoOptim == [n \in Nets |-> [steps |-> 0, grad |-> "none"]]
NoOpts  == [save_images |-> FALSE, has_writer |-> FALSE]

TrainIdle ==
    /\ args = NoArgs /\ train_len = 0 /\ epoch = 0 /\ iter = 0
    /\ sched = [n \in Nets |-> 0] /\ optim = NoOptim
    /\ calls = <<>> /\ gsteps = <<>>

DataIdle ==
    /\ Gfn = "id" /\ dataset = [shape |-> <<>>, items |-> <<>>] /\ batch_size = 1 /\ idx = 0 /\ opts = NoOpts
    /\ fake_images = <<>> /\ true_images = <<>> /\ out = <<>>
    /\ files = <<>> /\ writes = <<>>

InitFreeze ==
    /\ req \in AllFlags
    /\ mode = [n \in Nets |-> "train"]
    /\ fz = NoCall
    /\ pc = "client"
    /\ sink = <<>>
    /\ TrainIdle
    /\ DataIdle

NextFreeze == FreezeCall \/ FreezeAgain

SpecFreeze == InitFreeze /\ [][NextFreeze]_vars

\* ------------------------------------------------------- train_one_epoch
ArgsSet ==
    [n_epochs : 0..MaxEpochs, total_epochs : {MaxEpochs},
     log_freq : 1..MaxFreq, display_freq : 1..MaxFreq]

DNet == [isList |-> FALSE, val |-> "D"]

Ev(op) == [op |-> op, i |-> iter]

\* the record a set_requires_grad call leaves in fz
Called(nets, flag, res) ==
    [n |-> 1, nets |-> nets, flag |-> flag, pre |-> req, first |-> res.req, raised |-> res.raised]

SchedGateInclusive(e, n) == e >= n

\* line 26: if epoch > args.n_epochs
SchedGate(e, n) == e > n

HasNextBatchShort(i, T) == i + 1 < T

\* line 30: enumerate(train_loader, 1) yields another batch
HasNextBatch(i, T) == i < T

\* line 38: set_requires_grad(D, True)
DStepFlag == TRUE

GStepFlagTrainable == TRUE

\* line 53: set_requires_grad(D, False)
GStepFlag == FALSE

GlobalStepUnscaled(e, T, i) == (e - 1) + i

\* line 64: global_step = (epoch - 1) * len(train_loader) + iter
GlobalStep(e, T, i) == (e - 1) * T + i

ShouldLogScalarsNoFinal(i, T, lf) == i % lf = 0

\* line 66: not (iter % args.log_freq) or (iter == len(train_loader))
ShouldLogScalars(i, T, lf) == (i % lf = 0) \/ (i = T)

\* line 86: not (iter % args.display_freq)
ShouldLogImages(i, df) == i % df = 0

\* lines 77-84: the seven add_scalar calls of one scalar set
ScalarTags == <<"G/adversarial", "G/vgg", "G/l1", "G/lr", "D/real", "D/fake", "D/lr">>

\* lines 87-89: the three add_image calls of one image snapshot
ImageTags == <<"images/src", "images/dst", "images/gen">>

Entries(tags, step) == [k \in 1..Len(tags) |-> [tag |-> tags[k], step |-> step]]

\* The caller starts the next epoch of the run; lines 23-24: G.train(), D.train().
TrainEnter ==
    /\ pc = "idle"
    /\ epoch < args.total_epochs
    /\ epoch' = epoch + 1
    /\ iter' = 0
    /\ calls' = <<>>
    /\ mode' = [n \in Nets |-> "train"]
    /\ pc' = "sched"
    /\ UNCHANGED <<req, fz, args, train_len, sched, optim, gsteps, sink>>
    /\ UNCHANGED dataVars

\* lines 26-28
TrainSched ==
    /\ pc = "sched"
    /\ IF SchedGate(epoch, args.n_epochs)
       THEN /\ sched' = [n \in Nets |-> sched[n] + 1]
            /\ calls' = calls \o <<Ev("schedG.step"), Ev("schedD.step")>>
       ELSE UNCHANGED <<sched, calls>>
    /\ pc' = "for"
    /\ UNCHANGED <<req, mode, fz, args, train_len, epoch, iter, optim, gsteps, sink>>
    /\ UNCHANGED dataVars

\* line 30: the for statement fetches the next batch, or the function returns
TrainFor ==
    /\ pc = "for"
    /\ IF HasNextBatch(iter, train_len)
       THEN /\ iter' = iter + 1
            /\ calls' = Append(calls, [op |-> "batch", i |-> iter + 1])
            /\ pc' = "forwardG"
       ELSE /\ pc' = "idle"
            /\ UNCHANGED <<iter, calls>>
    /\ UNCHANGED <<req, mode, fz, args, train_len, epoch, sched, optim, gsteps, sink>>
    /\ UNCHANGED dataVars

\* a step that changes nothing but the position
Goto(from, to) ==
    /\ pc = from
    /\ pc' = to
    /\ UNCHANGED <<req, mode, fz, sink>>
    /\ UNCHANGED trainVars
    /\ UNCHANGED dataVars

\* lines 32-37: move the batch to the device, fake_B = G(real_A, cond)
TrainForwardG == Goto("forwardG", "unfreezeD")

\* a set_requires_grad(D, flag) call inside the loop
TrainSetD(from, to, flag) ==
    /\ pc = from
    /\ LET res == set_requires_grad(req, DNet, flag)
       IN  /\ req' = res.req
           /\ fz' = Called(DNet, flag, res)
           /\ pc' = IF res.raised THEN "raised" ELSE to
    /\ UNCHANGED <<mode, sink>>
    /\ UNCHANGED trainVars
    /\ UNCHANGED dataVars

\* line 38
TrainUnfreezeD == TrainSetD("unfreezeD", "zeroGradD", DStepFlag)

\* optimizer.zero_grad()
TrainZeroGrad(from, to, net, op) ==
    /\ pc = from
    /\ optim' = [optim EXCEPT ![net].grad = "zero"]
    /\ calls' = Append(calls, Ev(op))
    /\ pc' = to
    /\ UNCHANGED <<req, mode, fz, args, train_len, epoch, iter, sched, gsteps, sink>>
    /\ UNCHANGED dataVars

\* loss.backward(): gradients accumulate in the parameters of net, and in those
\* of every other network the loss reaches whose parameters require grad; they
\* are "fresh" when they were zero before, "dirty" when added to older ones
TrainBackward(from, to, net, reached, op) ==
    /\ pc = from
    /\ optim' = [n \in Nets |->
                    IF n = net \/ (n \in reached /\ \E p \in Params : req[n][p])
                    THEN [optim[n] EXCEPT !.grad = IF @ = "zero" THEN "fresh" ELSE "dirty"]
                    ELSE optim[n]]
    /\ calls' = Append(calls, Ev(op))
    /\ pc' = to
    /\ UNCHANGED <<req, mode, fz, args, train_len, epoch, iter, sched, gsteps, sink>>
    /\ UNCHANGED dataVars

\* optimizer.step()
TrainStep(from, to, net, op) ==
    /\ pc = from
    /\ optim' = [optim EXCEPT ![net] = [steps |-> @.steps + 1, grad |-> "used"]]
    /\ calls' = Append(calls, Ev(op))
    /\ pc' = to
    /\ UNCHANGED <<req, mode, fz, args, train_len, epoch, iter, sched, gsteps, sink>>
    /\ UNCHANGED dataVars

\* line 39
TrainZeroGradD == TrainZeroGrad("zeroGradD", "lossD", "D", "optimD.zero_grad")

\* lines 40-47: D on the detached fake pair and on the real pair, loss_D
TrainLossD == Goto("lossD", "backwardD")

\* line 48: fake_AB is detached, so loss_D reaches D only
TrainBackwardD == TrainBackward("backwardD", "stepD", "D", {}, "loss_D.backward")

\* line 49
TrainStepD == TrainStep("stepD", "freezeD", "D", "optimD.step")

\* line 53
TrainFreezeD == TrainSetD("freezeD", "zeroGradG", GStepFlag)

\* line 54
TrainZeroGradG == TrainZeroGrad("zeroGradG", "lossG", "G", "optimG.zero_grad")

\* lines 55-60: D on the non-detached fake pair, the three generator losses
TrainLossG == Goto("lossG", "backwardG")

\* line 61: loss_G passes through D
TrainBackwardG == TrainBackward("backwardG", "stepG", "G", {"D"}, "loss_G.backward")

\* line 62
TrainStepG == TrainStep("stepG", "log", "G", "optimG.step")

\* lines 64-89: the global step, the scalar set, the image snapshot
TrainLog ==
    /\ pc = "log"
    /\ LET global_step == GlobalStep(epoch, train_len, iter)
           scalars == IF ShouldLogScalars(iter, train_len, args.log_freq)
                      THEN Entries(ScalarTags, global_step) ELSE <<>>
           images  == IF ShouldLogImages(iter, args.display_freq)
                      THEN Entries(ImageTags, global_step) ELSE <<>>
       IN  /\ gsteps' = Append(gsteps, [epoch |-> epoch, iter |-> iter, step |-> global_step])
           /\ sink' = sink \o scalars \o images
    /\ pc' = "for"
    /\ UNCHANGED <<req, mode, fz, args, train_len, epoch, iter, sched, optim, calls>>
    /\ UNCHANGED dataVars

\* the forward passes, losses, backward passes and optimizer steps can fail;
\* nothing catches the failure (no try in lines 30-89)
FailPcs == {"forwardG", "lossD", "backwardD", "stepD", "lossG", "backwardG", "stepG"}

TrainFail ==
    /\ pc \in FailPcs
    /\ pc' = "raised"
    /\ UNCHANGED <<req, mode, fz, sink>>
    /\ UNCHANGED trainVars
    /\ UNCHANGED dataVars

InitTrain ==
    /\ req \in {r \in AllFlags : AllReq(r, "G", TRUE)}
    /\ mode = [n \in Nets |-> "train"]
    /\ fz = NoCall
    /\ pc = "idle"
    /\ sink = <<>>
    /\ args \in ArgsSet
    /\ train_len \in 0..MaxT
    /\ epoch = 0 /\ iter = 0
    /\ sched = [n \in Nets |-> 0] /\ optim = NoOptim
    /\ calls = <<>> /\ gsteps = <<>>
    /\ DataIdle

NextTrain ==
    \/ TrainEnter \/ TrainSched \/ TrainFor \/ TrainForwardG
    \/ TrainUnfreezeD \/ TrainZeroGradD \/ TrainLossD \/ TrainBackwardD \/ TrainStepD
    \/ TrainFreezeD \/ TrainZeroGradG \/ TrainLossG \/ TrainBackwardG \/ TrainStepG
    \/ TrainLog \/ TrainFail

SpecTrain == InitTrain /\ [][NextTrain]_vars

\* ------------------------------------------------------- tensors and data
\* pixel values on the [-1,1] scale
Pixel == {-1, 1}

\* (C, H, W) of the images of a dataset; every image has two pixels
ImgShapes == {<<1, 1, 2>>, <<2, 1, 1>>}

ImgData == [1..2 -> Pixel]

RECURSIVE Prod(_)
Prod(shape) == IF shape = <<>> THEN 1 ELSE Head(shape) * Prod(Tail(shape))

RECURSIVE Flatten(_)
Flatten(seqs) == IF seqs = <<>> THEN <<>> ELSE Head(seqs) \o Flatten(Tail(seqs))

RECURSIVE SumLead(_)
SumLead(ts) == IF ts = <<>> THEN 0 ELSE Head(ts).shape[1] + SumLead(Tail(ts))

\* torch.cat of a non-empty list, along dimension 0
Cat(ts) ==
    [shape |-> <<SumLead(ts)>> \o Tail(ts[1].shape),
     flat  |-> Flatten([k \in 1..Len(ts) |-> ts[k].flat])]

\* Tensor.squeeze(): every dimension of size 1 is removed
Squeeze(t) == [shape |-> SelectSeq(t.shape, LAMBDA d : d # 1), flat |-> t.flat]

\* len(t) and t[k] of a tensor of at least one dimension: iteration is along dimension 0
TLen(t) == t.shape[1]

TEntry(t, k) ==
    LET sz == Prod(Tail(t.shape))
    IN  [shape |-> Tail(t.shape), flat |-> SubSeq(t.flat, (k - 1) * sz + 1, k * sz)]

\* lines 109, 112: (t + 1) * 0.5 * 255., elementwise
To255(t) ==
    [shape |-> t.shape, flat |-> [k \in 1..Len(t.flat) |-> ((t.flat[k] + 1) * 255) \div 2]]

\* line 146: (t + 1.0) * 0.5, elementwise
To01(t) == [shape |-> t.shape, flat |-> [k \in 1..Len(t.flat) |-> (t.flat[k] + 1) \div 2]]

\* the generator: an elementwise function of the source image
GFns == {"id", "neg"}

GPixel(x) == IF Gfn = "id" THEN x ELSE 0 - x

\* lines 105, 138: fake = G(src, cond)
G(src) == [shape |-> src.shape, flat |-> [k \in 1..Len(src.flat) |-> GPixel(src.flat[k])]]

Min(a, b) == IF a < b THEN a ELSE b

\* the batch data_loader yields next: the next batch_size items, fewer at the end
BatchItems == SubSeq(dataset.items, idx + 1, Min(idx + batch_size, Len(dataset.items)))

\* the batch tensor of one field of the batch's items
BatchTensor(field) ==
    [shape |-> <<Len(BatchItems)>> \o dataset.shape,
     flat  |-> Flatten([k \in 1..Len(BatchItems) |-> BatchItems[k][field]])]

\* ---------------------------------------------------------------- evaluate
\* line 124: the threshold of the below-threshold count
CriThreshold == 20

Abs(x) == IF x < 0 THEN 0 - x ELSE x

RECURSIVE Sum(_)
Sum(xs) == IF xs = <<>> THEN 0 ELSE Head(xs) + Sum(Tail(xs))

MeanAbsDiff(a, b) ==
    IF Len(a) = 0 THEN 0
    ELSE Sum([k \in 1..Len(a) |-> Abs(a[k] - b[k])]) \div Len(a)

\* metric.mean_pixel_loss: one aggregate over all pixels
mean_pixel_loss(fake, true) == MeanAbsDiff(fake.flat, true.flat)

\* metric.mean_absolute_cri_error(..., return_error_array=True): one error per
\* entry along dimension 0 of what it is handed, and their mean
mean_absolute_cri_error(fake, true) ==
    LET arr == [k \in 1..TLen(fake) |-> MeanAbsDiff(TEntry(fake, k).flat, TEntry(true, k).flat)]
    IN  [mean |-> IF Len(arr) = 0 THEN 0 ELSE Sum(arr) \div Len(arr), array |-> arr]

\* line 124: (cri_error_array < 20).sum()
BelowThreshold(arr) == Cardinality({k \in 1..Len(arr) : arr[k] < CriThreshold})

\* lines 99-101
EvalEnter ==
    /\ pc = "idle"
    /\ mode' = [mode EXCEPT !["G"] = "eval"]
    /\ true_images' = <<>>
    /\ fake_images' = <<>>
    /\ pc' = "loop"
    /\ UNCHANGED <<req, fz, sink, Gfn, dataset, batch_size, idx, opts, out, files, writes>>
    /\ UNCHANGED trainVars

\* lines 102-107: one iteration of the loop over data_loader
EvalBatch ==
    /\ pc = "loop"
    /\ idx < Len(dataset.items)
    /\ fake_images' = Append(fake_images, G(BatchTensor("src")))
    /\ true_images' = Append(true_images, BatchTensor("dst"))
    /\ idx' = idx + Len(BatchItems)
    /\ UNCHANGED <<req, mode, fz, pc, sink, Gfn, dataset, batch_size, opts, out, files, writes>>
    /\ UNCHANGED trainVars

\* lines 109-127: concatenate, rescale, squeeze, hand to the metrics, log, report.
\* torch.cat of an empty list raises.
EvalFinish ==
    /\ pc = "loop"
    /\ idx = Len(dataset.items)
    /\ IF fake_images = <<>>
       THEN /\ pc' = "raised"
            /\ UNCHANGED <<out, sink>>
       ELSE LET fake == Squeeze(To255(Cat(fake_images)))
                true == Squeeze(To255(Cat(true_images)))
                pix  == mean_pixel_loss(fake, true)
                cri  == mean_absolute_cri_error(fake, true)
            IN  /\ out' = [fake |-> fake, true |-> true, pix_error |-> pix,
                           cri_error |-> cri.mean, cri_error_array |-> cri.array,
                           below |-> BelowThreshold(cri.array),
                           total |-> Len(dataset.items)]
                /\ sink' = sink \o <<[tag |-> "metric/pixel loss", step |-> epoch],
                                     [tag |-> "metric/cri_error", step |-> epoch],
                                     [tag |-> "metric/cri_error_hist", step |-> epoch]>>
                /\ pc' = "done"
    /\ UNCHANGED <<req, mode, fz, Gfn, dataset, batch_size, idx, opts,
                   fake_images, true_images, files, writes>>
    /\ UNCHANGED trainVars

EvalItems == [src : ImgData, dst : ImgData]

InitEval ==
    /\ req = [n \in Nets |-> [p \in Params |-> TRUE]]
    /\ mode = [n \in Nets |-> "train"]
    /\ fz = NoCall
    /\ pc = "idle"
    /\ sink = <<>>
    /\ args = NoArgs /\ train_len = 0 /\ iter = 0
    /\ epoch \in 1..MaxEpochs
    /\ sched = [n \in Nets |-> 0] /\ optim = NoOptim
    /\ calls = <<>> /\ gsteps = <<>>
    /\ Gfn \in GFns
    /\ \E shape \in ImgShapes, items \in SeqsUpTo(EvalItems, MaxSamples) :
          dataset = [shape |-> shape, items |-> items]
    /\ batch_size \in 1..MaxBatch
    /\ idx = 0 /\ opts = NoOpts
    /\ fake_images = <<>> /\ true_images = <<>> /\ out = <<>>
    /\ files = <<>> /\ writes = <<>>

NextEval == EvalEnter \/ EvalBatch \/ EvalFinish

SpecEval == InitEval /\ [][NextEval]_vars

\* ---------------------------------------------------------------- generate
\* args.output_dir
OutputDir == <<"out">>

\* the original filenames a dataset can list, as path components; a dataset
\* lists a file once
SrcPaths == {<<"a", "x.png">>, <<"b", "x.png">>, <<"a", "y.png">>}

BasenameFirst(path) == path[1]

\* line 148: os.path.basename(org_filename)
Basename(path) == path[Len(path)]

\* line 148: os.path.join(args.output_dir, name)
Join(dir, name) == Append(dir, name)

\* line 147: zip(a, b) stops with the shorter of the two
Zip(a, b) == [k \in 1..Min(Len(a), Len(b)) |-> <<a[k], b[k]>>]

\* data_loader.dataset.src_images
src_images == [k \in 1..Len(dataset.items) |-> dataset.items[k].path]

\* lines 147-149: the save_image calls of the loop, in order
SaveCalls(fake) ==
    LET pairs == Zip(src_images, [k \in 1..TLen(fake) |-> TEntry(fake, k)])
    IN  [k \in 1..Len(pairs) |->
            [path |-> Join(OutputDir, Basename(pairs[k][1])), img |-> pairs[k][2]]]

\* the directory after the save_image calls: a later write replaces an earlier one
RECURSIVE Written(_, _)
Written(dir, ws) ==
    IF ws = <<>> THEN dir
    ELSE Written((Head(ws).path :> Head(ws).img) @@ dir, Tail(ws))

\* lines 133-134
GenEnter ==
    /\ pc = "idle"
    /\ mode' = [mode EXCEPT !["G"] = "eval"]
    /\ fake_images' = <<>>
    /\ pc' = "loop"
    /\ UNCHANGED <<req, fz, sink, Gfn, dataset, batch_size, idx, opts, true_images,
                   out, files, writes>>
    /\ UNCHANGED trainVars

\* lines 135-139: one iteration of the loop over data_loader
GenBatch ==
    /\ pc = "loop"
    /\ idx < Len(dataset.items)
    /\ fake_images' = Append(fake_images, G(BatchTensor("src")))
    /\ idx' = idx + Len(BatchItems)
    /\ UNCHANGED <<req, mode, fz, pc, sink, Gfn, dataset, batch_size, opts, true_images,
                   out, files, writes>>
    /\ UNCHANGED trainVars

\* lines 140-151: concatenate, log the grid, save the images, return fake_images.
\* torch.cat of an empty list raises.  make_grid works on a copy.
GenFinish ==
    /\ pc = "loop"
    /\ idx = Len(dataset.items)
    /\ IF fake_images = <<>>
       THEN /\ pc' = "raised"
            /\ UNCHANGED <<out, sink, files, writes>>
       ELSE LET cat    == Cat(fake_images)
                scaled == To01(cat)
                saves  == SaveCalls(scaled)
            IN  /\ sink' = IF opts.has_writer
                           THEN Append(sink, [tag |-> "images/test_gen", step |-> epoch])
                           ELSE sink
                /\ IF opts.save_images
                   THEN /\ writes' = writes \o saves
                        /\ files' = Written(files, saves)
                        /\ out' = [ret |-> scaled]
                   ELSE /\ UNCHANGED <<writes, files>>
                        /\ out' = [ret |-> cat]
                /\ pc' = "done"
    /\ UNCHANGED <<req, mode, fz, Gfn, dataset, batch_size, idx, opts,
                   fake_images, true_images>>
    /\ UNCHANGED trainVars

GenItems == [src : ImgData, path : SrcPaths]

InitGen ==
    /\ req = [n \in Nets |-> [p \in Params |-> TRUE]]
    /\ mode = [n \in Nets |-> "train"]
    /\ fz = NoCall
    /\ pc = "idle"
    /\ sink = <<>>
    /\ args = NoArgs /\ train_len = 0 /\ iter = 0
    /\ epoch \in 1..MaxEpochs
    /\ sched = [n \in Nets |-> 0] /\ optim = NoOptim
    /\ calls = <<>> /\ gsteps = <<>>
    /\ Gfn \in GFns
    /\ \E shape \in ImgShapes, items \in SeqsUpTo(GenItems, MaxSamples) :
          /\ \A j, k \in 1..Len(items) : j < k => items[j].path # items[k].path
          /\ dataset = [shape |-> shape, items |-> items]
    /\ batch_size \in 1..MaxBatch
    /\ idx = 0
    /\ opts \in [save_images : BOOLEAN, has_writer : BOOLEAN]
    /\ fake_images = <<>> /\ true_images = <<>> /\ out = <<>>
    /\ files = <<>> /\ writes = <<>>

NextGen == GenEnter \/ GenBatch \/ GenFinish

SpecGen == InitGen /\ [][NextGen]_vars

\* ------------------------------------------------- train_one_epoch: claims
SchedOps == {"schedG.step", "schedD.step"}

\* C1: in a call with epoch <= n_epochs no scheduler is stepped at any point;
\* in a call with epoch > n_epochs schedG and schedD are each stepped exactly
\* once, as the first two calls of the epoch, hence before the first batch is
\* fetched, whether the epoch has no batch, completes, or fails later.
C1_SchedulerGate ==
    epoch >= 1 =>
        IF epoch <= args.n_epochs
        THEN /\ \A k \in 1..Len(calls) : calls[k].op \notin SchedOps
             /\ \A n \in Nets : sched[n] = 0
        ELSE IF pc = "sched"
        THEN /\ calls = <<>>
             /\ \A n \in Nets : sched[n] = epoch - 1 - args.n_epochs
        ELSE /\ Len(calls) >= 2
             /\ calls[1].op = "schedG.step"
             /\ calls[2].op = "schedD.step"
             /\ \A k \in 3..Len(calls) : calls[k].op \notin SchedOps
             /\ \A n \in Nets : sched[n] = epoch - args.n_epochs

\* a batch after the first fails in the first epoch past the warm-up
C1_Witness ==
    /\ pc = "raised" /\ iter = 2
    /\ epoch = 2 /\ args.n_epochs = 1
    /\ sched["G"] = 1 /\ sched["D"] = 1

\* C2: every global step equals (e-1)*T + i for its epoch e and batch i, the
\* global steps of a run over epochs 1, 2, ... are strictly increasing, and
\* every entry of the sink is keyed by one of them.
C2_GlobalStep ==
    /\ \A k \in 1..Len(gsteps) :
          gsteps[k].step = (gsteps[k].epoch - 1) * train_len + gsteps[k].iter
    /\ \A j, k \in 1..Len(gsteps) : j < k => gsteps[j].step < gsteps[k].step
    /\ \A x \in 1..Len(sink) : \E k \in 1..Len(gsteps) : sink[x].step = gsteps[k].step

\* a run of two epochs of two batches each has finished
C2_Witness ==
    /\ pc = "idle" /\ epoch = 2 /\ train_len = 2
    /\ Len(gsteps) = 4 /\ gsteps[4].step = 4

\* C3: D is trainable from loss_D.backward() until just after optimD.step(),
\* and frozen from loss_G.backward() until just after optimG.step().
C3_FreezeToggle ==
    /\ pc \in {"backwardD", "stepD", "freezeD"} => AllReq(req, "D", TRUE)
    /\ pc \in {"backwardG", "stepG", "log"} => AllReq(req, "D", FALSE)

\* the generator sub-step of a second batch has completed: D was frozen when
\* the batch began, trainable after its discriminator sub-step
C3_Witness ==
    /\ pc = "log" /\ iter = 2
    /\ optim["D"].steps = 2 /\ optim["G"].steps = 2
    /\ AllReq(fz.pre, "D", TRUE)

\* a batch iteration has completed, or the call has returned from an epoch
\* with at least one batch
AfterUpdate ==
    \/ pc = "for" /\ iter >= 1
    \/ pc = "idle" /\ epoch >= 1 /\ train_len >= 1

\* C4 as stated: after a full alternating update D is left unfrozen.
C4_Original == AfterUpdate => AllReq(req, "D", TRUE)

\* C4 amended: after a full alternating update, and after the call returns
\* from an epoch with at least one batch, every parameter of D is frozen.
C4_LeftFrozen == AfterUpdate => AllReq(req, "D", FALSE)

\* the call has returned from an epoch with at least one batch
C4_Witness ==
    /\ pc = "idle" /\ epoch >= 1 /\ train_len >= 1
    /\ optim["G"].steps = epoch * train_len

\* batch i of epoch e has passed the logging code
Logged(e, i) ==
    \/ e < epoch
    \/ e = epoch /\ i < iter
    \/ e = epoch /\ i = iter /\ pc \in {"for", "idle"}

CountEntries(tag, step) == Len(SelectSeq(sink, LAMBDA x : x.tag = tag /\ x.step = step))

\* C5: batch i of an epoch of T batches writes each scalar of the scalar set
\* once iff i is a multiple of log_freq or i = T, and each image grid once iff
\* i is a multiple of display_freq, all keyed (e-1)*T + i; nothing else is
\* written; a 1-batch epoch with log_freq = display_freq = 1 writes one scalar
\* set and one image snapshot keyed by (epoch-1)*1 + 1.
C5_Logging ==
    /\ \A e \in 1..epoch, i \in 1..train_len :
          LET s == (e - 1) * train_len + i
          IN  /\ \A k \in 1..Len(ScalarTags) :
                    CountEntries(ScalarTags[k], s) =
                        IF Logged(e, i) /\ (i % args.log_freq = 0 \/ i = train_len)
                        THEN 1 ELSE 0
              /\ \A k \in 1..Len(ImageTags) :
                    CountEntries(ImageTags[k], s) =
                        IF Logged(e, i) /\ i % args.display_freq = 0 THEN 1 ELSE 0
    /\ \A x \in 1..Len(sink) :
          /\ sink[x].step \in 1..(epoch * train_len)
          /\ \E k \in 1..Len(ScalarTags) \cup 1..Len(ImageTags) :
                \/ k <= Len(ScalarTags) /\ sink[x].tag = ScalarTags[k]
                \/ k <= Len(ImageTags) /\ sink[x].tag = ImageTags[k]
    /\ (pc = "idle" /\ epoch = 1 /\ train_len = 1
            /\ args.log_freq = 1 /\ args.display_freq = 1)
          => sink = [k \in 1..Len(ScalarTags) |-> [tag |-> ScalarTags[k], step |-> 1]]
                      \o [k \in 1..Len(ImageTags) |-> [tag |-> ImageTags[k], step |-> 1]]

\* the second 1-batch epoch with log_freq = display_freq = 1 has returned
C5_Witness ==
    /\ pc = "idle" /\ epoch = 2 /\ train_len = 1
    /\ args.log_freq = 1 /\ args.display_freq = 1
    /\ CountEntries("G/lr", 2) = 1 /\ CountEntries("images/gen", 2) = 1

StepPattern ==
    <<"batch", "optimD.zero_grad", "loss_D.backward", "optimD.step",
      "optimG.zero_grad", "loss_G.backward", "optimG.step">>

BatchCalls == SelectSeq(calls, LAMBDA e : e.op \notin SchedOps)

\* C10: the batches are fetched in order 1, 2, ..., each followed by exactly
\* optimD.zero_grad, loss_D.backward, optimD.step, optimG.zero_grad,
\* loss_G.backward, optimG.step in this order; every optimizer steps on
\* gradients computed after its last zero_grad; an epoch of T batches that
\* returns has stepped each optimizer exactly T times.
C10_AlternatingOrder ==
    epoch >= 1 =>
        /\ \A k \in 1..Len(BatchCalls) :
              /\ BatchCalls[k].op = StepPattern[((k - 1) % Len(StepPattern)) + 1]
              /\ BatchCalls[k].i = ((k - 1) \div Len(StepPattern)) + 1
        /\ pc = "stepD" => optim["D"].grad = "fresh"
        /\ pc = "stepG" => optim["G"].grad = "fresh"
        /\ pc = "idle" =>
              /\ Len(BatchCalls) = Len(StepPattern) * train_len
              /\ \A n \in Nets : optim[n].steps = epoch * train_len

\* a second epoch of two batches has returned
C10_Witness ==
    /\ pc = "idle" /\ epoch = 2 /\ train_len = 2
    /\ optim["D"].steps = 4 /\ optim["G"].steps = 4
    /\ Len(BatchCalls) = 14

\* ------------------------------------------------ evaluate, generate: claims
NumSamples == Len(dataset.items)

\* what the generator makes of the source image of sample k
Generated(k) ==
    [j \in 1..Len(dataset.items[k].src) |->
        IF Gfn = "id" THEN dataset.items[k].src[j] ELSE 0 - dataset.items[k].src[j]]

\* C6: generate returns the concatenated generator output on the [-1,1]
\* scale, in iteration order, whatever save_images and log_writer are.
C6_ReturnsRaw ==
    pc = "done" =>
        out.ret = [shape |-> <<NumSamples>> \o dataset.shape,
                   flat  |-> Flatten([k \in 1..NumSamples |-> Generated(k)])]

LastName(k) == dataset.items[k].path[Len(dataset.items[k].path)]

\* the k-th save_image call writes sample k, rescaled to [0,1], under the base
\* name of the k-th filename
PositionalWrites ==
    /\ Len(writes) = NumSamples
    /\ \A k \in 1..NumSamples :
          /\ writes[k].path = OutputDir \o <<LastName(k)>>
          /\ writes[k].img.flat = [j \in 1..Len(Generated(k)) |-> (Generated(k)[j] + 1) \div 2]

\* C7 as stated: with persistence enabled, the number of distinct files
\* written equals the number of samples, sample k under the k-th base name.
C7_Original ==
    (pc = "done" /\ opts.save_images) =>
        /\ Cardinality(DOMAIN files) = NumSamples
        /\ PositionalWrites

\* C7 amended: with persistence enabled there is one save_image call per
\* sample, the k-th for sample k under the base name of the k-th filename; the
\* number of distinct files is the number of distinct base names, and a file
\* holds the last sample written under its name (an empty source raises
\* before anything is written).
C7_PositionalFiles ==
    (pc \in {"done", "raised"} /\ opts.save_images) =>
        /\ PositionalWrites
        /\ Cardinality(DOMAIN files) = Cardinality({LastName(k) : k \in 1..NumSamples})
        /\ \A k \in 1..NumSamples :
              (\A m \in (k + 1)..NumSamples : LastName(m) # LastName(k))
                  => files[writes[k].path] = writes[k].img

\* two samples whose filenames differ but share the base name were saved
C7_Witness ==
    /\ pc = "done" /\ opts.save_images
    /\ NumSamples = 2
    /\ dataset.items[1].path # dataset.items[2].path
    /\ LastName(1) = LastName(2)
    /\ Len(writes) = 2
    /\ Cardinality(DOMAIN files) = 1

\* C8: the generated and reference collections handed to the metrics have one
\* entry per sample of the source, the k-th being the rescaled output / target
\* of sample k; the error array has one entry per sample, and the reported
\* count is the number of them below 20, out of the dataset size.
C8_PerSample ==
    pc = "done" =>
        /\ TLen(out.fake) = NumSamples
        /\ TLen(out.true) = NumSamples
        /\ \A k \in 1..NumSamples :
              /\ TEntry(out.fake, k).flat =
                    [j \in 1..Len(Generated(k)) |-> ((Generated(k)[j] + 1) * 255) \div 2]
              /\ TEntry(out.true, k).flat =
                    [j \in 1..Len(dataset.items[k].dst) |->
                        ((dataset.items[k].dst[j] + 1) * 255) \div 2]
        /\ Len(out.cri_error_array) = NumSamples
        /\ out.below = Cardinality({k \in 1..NumSamples : out.cri_error_array[k] < 20})
        /\ out.total = NumSamples

\* ------------------------------------------------ set_requires_grad: claims
Provided(nets) ==
    {n \in Nets : IF nets.isList
                  THEN \E k \in 1..Len(nets.val) : nets.val[k] = n
                  ELSE nets.val = n}

HasNone(nets) ==
    IF nets.isList THEN \E k \in 1..Len(nets.val) : nets.val[k] = None ELSE nets.val = None

\* C9: a set_requires_grad(nets, flag) call does not raise, whether or not
\* nets holds None; it leaves every parameter of every network in nets at
\* flag and the flags of every other network as they were; repeating the call
\* leaves the state of the first call.
C9_FreezeContract ==
    (pc = "client" /\ fz.n >= 1) =>
        /\ ~fz.raised
        /\ \A n \in Provided(fz.nets) : \A p \in Params : req[n][p] = fz.flag
        /\ \A n \in Nets \ Provided(fz.nets) : req[n] = fz.pre[n]
        /\ fz.n >= 2 => req = fz.first

\* a list with a None entry and D was handed in twice, and changed D's flags
C9_Witness ==
    /\ pc = "client" /\ fz.n = 2
    /\ fz.nets.isList /\ HasNone(fz.nets) /\ Provided(fz.nets) = {"D"}
    /\ req # fz.pre

====
